---- MODULE Spec2Model ----
(***************************************************************************)
(* ffmpeg-cpal-play-audio (src/main.rs): the main/decode thread decodes    *)
(* and resamples audio packets and pushes the samples of every resampled   *)
(* frame into a bounded single-producer/single-consumer ring buffer; the   *)
(* output device's callback thread (write_audio) pops one sample per       *)
(* output slot and writes silence when the ring is empty.                  *)
(*                                                                         *)
(* Samples are modelled by their identity: the k-th sample the pipeline    *)
(* hands to push_slice is the number k (k >= 1); Silence is 0.  A run      *)
(* <<first, n>> stands for the n consecutive samples first..first+n-1, and *)
(* a sequence of runs for their concatenation; the ring's contents and the *)
(* log of played samples are kept as sequences of runs.                    *)
(***************************************************************************)
EXTENDS Integers, Sequences, FiniteSets, TLC

VARIABLES
    pc,               \* main thread: the statement of main it is about to execute
    result,           \* what main returned: "none" while running, "Ok", or the error
    stream_config,    \* init_cpal's SupportedStreamConfig: [format, channels], or NoConfig
    decoder_channels, \* channel count of audio_decoder.channel_layout(); 0 before the decoder exists
    resampler,        \* ResamplingContext: its target [format, channels], or NoResampler
    capacity,         \* capacity of the RingBuffer; 0 before it is created
    queue,            \* contents of the RingBuffer, oldest first (runs)
    queue_created,    \* RingBuffer::new has run
    audio_stream,     \* "none", "built" or "playing"
    packets_read,     \* packets taken from ictx.packets() so far
    packet_stream,    \* the stream of the last packet taken: "audio" (the stream of
                      \* audio_stream_index), "other", or "none" before the first packet
    frames_received,  \* frames receive_frame has returned so far
    resampled,        \* the frame resampler.run produced: [format, samples, channels, alloc], or NoFrame
    both_channels,    \* both_channels.len(): length of the flat view packed() returned
    seen_remaining,   \* history: the value producer.remaining() returned in the last
                      \* while-condition (the code keeps only the comparison's outcome)
    pushed,           \* samples handed to producer.push_slice so far
    reported,         \* history: the error the decoder or the resampler reported to the
                      \* pipeline's last call, "none" if it reported none
    cb,               \* callback thread: "idle" or "running" (inside write_audio)
    buffer_len,       \* data.len() of the running callback
    data,             \* the output buffer of the running callback, slot by slot
    slot,             \* slots of data the loop of write_audio has gone through
    played            \* the samples (not silence) written to output buffers, in order (runs)

vars == <<pc, result, stream_config, decoder_channels, resampler, capacity, queue,
          queue_created, audio_stream, packets_read, packet_stream, frames_received, resampled,
          both_channels, seen_remaining, pushed, reported, cb, buffer_len, data, slot,
          played>>

main_vars == <<pc, result, stream_config, decoder_channels, resampler, capacity,
               queue_created, audio_stream, packets_read, packet_stream, frames_received, resampled,
               both_channels, seen_remaining, pushed, reported>>

callback_vars == <<cb, buffer_len, data, slot, played>>

----------------------------------------------------------------------------
(* Bounds of the model.                                                     *)

\* Capacity of the ring in the interleaving specification (main.rs creates 8192).
QueueCapacity == 3
\* Packets the input file holds at most.
MaxPackets == 2
\* Frames the input file decodes to at most.
MaxFrames == 2
\* Samples per channel of one resampled frame at most.
MaxSamples == 2
\* Channel counts of the decoder's and of the device's channel layout: mono, stereo.
ChannelCounts == {1, 2}
\* Sample frames per output buffer the device may ask for.
BufferFrames == {1, 2}

(* Program constants.                                                       *)

\* RingBuffer::<f32>::new(8192)
RingBufferCapacity == 8192
\* Sample::from(&0.0)
Silence == 0
\* content of an output slot the running callback has not written yet
Unwritten == -1

NoConfig == [format |-> "none", channels |-> 0]
NoResampler == [format |-> <<"none", "none">>, channels |-> 0]
NoFrame == [format |-> <<"none", "none">>, samples |-> 0, channels |-> 0, alloc |-> 0]

\* cpal::SampleFormat
SampleFormat == {"I16", "U16", "F32"}

Min(a, b) == IF a <= b THEN a ELSE b

----------------------------------------------------------------------------
(* Sequences of runs.                                                       *)

RECURSIVE RunsLen(_)
RunsLen(runs) ==
    IF runs = <<>> THEN 0 ELSE runs[1][2] + RunsLen(Tail(runs))

\* runs followed by the n samples first..first+n-1
AppendRun(runs, first, n) ==
    IF n = 0 THEN runs
    ELSE IF runs # <<>> /\ runs[Len(runs)][1] + runs[Len(runs)][2] = first
         THEN [runs EXCEPT ![Len(runs)] = <<@[1], @[2] + n>>]
         ELSE Append(runs, <<first, n>>)

\* runs without its first sample
DropFirst(runs) ==
    IF runs[1][2] = 1 THEN Tail(runs)
    ELSE [runs EXCEPT ![1] = <<@[1] + 1, @[2] - 1>>]

\* how many times sample s occurs in runs
Occurrences(runs, s) ==
    Cardinality({i \in DOMAIN runs : runs[i][1] <= s /\ s < runs[i][1] + runs[i][2]})

----------------------------------------------------------------------------
(* The ring buffer, as main.rs uses it.                                     *)

\* faulty variant: remaining() counted over the ring's cap + 1 allocated slots
Producer_remaining_allocated(cap, q) == cap + 1 - RunsLen(q)

\* producer.remaining()
Producer_remaining(cap, q) == cap - RunsLen(q)

\* faulty variant: push_slice that stops one sample short of the slice's end
Producer_push_slice_short(cap, q, first, n) ==
    AppendRun(q, first, Min(IF n > 0 THEN n - 1 ELSE 0, cap - RunsLen(q)))

\* producer.push_slice(slice): appends as many samples of the slice as fit
\* (a partial write when fewer fit than the slice holds) and drops the rest.
Producer_push_slice(cap, q, first, n) ==
    AppendRun(q, first, Min(n, Producer_remaining(cap, q)))

\* faulty variant: pop that takes the newest sample instead of the oldest
Consumer_pop_newest(q) ==
    IF q = <<>> THEN [some |-> FALSE, sample |-> Silence, rest |-> q]
    ELSE LET last == q[Len(q)] IN
         [some |-> TRUE, sample |-> last[1] + last[2] - 1,
          rest |-> IF last[2] = 1 THEN SubSeq(q, 1, Len(q) - 1)
                   ELSE [q EXCEPT ![Len(q)] = <<last[1], last[2] - 1>>]]

\* consumer.pop(): the oldest sample and the ring without it, or None
Consumer_pop(q) ==
    IF q = <<>> THEN [some |-> FALSE, sample |-> Silence, rest |-> q]
    ELSE [some |-> TRUE, sample |-> q[1][1], rest |-> DropFirst(q)]

----------------------------------------------------------------------------
(* Format Adapter and Frame Layout Reader.                                  *)

\* faulty variant: as_ffmpeg_sample that passes u16 off as i16 instead of panicking
as_ffmpeg_sample_u16_as_i16(format) ==
    CASE format = "I16" -> <<"I16", "Packed">>
      [] format = "U16" -> <<"I16", "Packed">>
      [] format = "F32" -> <<"F32", "Packed">>

\* SampleFormat::as_ffmpeg_sample: the engine's descriptor, or a panic
as_ffmpeg_sample(format) ==
    CASE format = "I16" -> <<"I16", "Packed">>
      [] format = "U16" -> <<"panic", "ffmpeg resampler doesn't support u16">>
      [] format = "F32" -> <<"F32", "Packed">>

\* <f32 as frame::audio::Sample>::is_valid(format, channels)
is_valid_f32(format, channels) == format[1] = "F32"

\* faulty variant: a view as long as the frame's allocated buffer
packed_allocated(frame) ==
    IF frame.format[2] # "Packed" THEN -1
    ELSE IF ~is_valid_f32(frame.format, frame.channels) THEN -1
    ELSE frame.alloc * frame.channels

\* packed::<f32>(frame): the length of the returned slice, or -1 for a panic
packed(frame) ==
    IF frame.format[2] # "Packed" THEN -1
    ELSE IF ~is_valid_f32(frame.format, frame.channels) THEN -1
    ELSE frame.samples * frame.channels

----------------------------------------------------------------------------
Init ==
    /\ pc = "init_cpal"
    /\ result = "none"
    /\ stream_config = NoConfig
    /\ decoder_channels = 0
    /\ resampler = NoResampler
    /\ capacity = 0
    /\ queue = <<>>
    /\ queue_created = FALSE
    /\ audio_stream = "none"
    /\ packets_read = 0
    /\ packet_stream = "none"
    /\ frames_received = 0
    /\ resampled = NoFrame
    /\ both_channels = 0
    /\ seen_remaining = 0
    /\ pushed = 0
    /\ reported = "none"
    /\ cb = "idle"
    /\ buffer_len = 0
    /\ data = <<>>
    /\ slot = 0
    /\ played = <<>>

----------------------------------------------------------------------------
(* The main thread (fn main).  Every action takes the outcome of the        *)
(* external call it makes (device, demuxer, decoder, resampler) as its      *)
(* parameter.                                                               *)

Running == pc \notin {"returned", "panicked"}

\* `?` and the final Ok(()): main returns r
Return(r) == pc' = "returned" /\ result' = r

\* panic!, expect and unwrap on the main thread
Panic == pc' = "panicked" /\ UNCHANGED result

\* init_cpal(): the default device's first supported config, or no device/config
InitCpal(cfg) ==
    /\ pc = "init_cpal"
    /\ IF cfg = NoConfig
       THEN Panic /\ UNCHANGED stream_config
       ELSE pc' = "open_input" /\ stream_config' = cfg /\ UNCHANGED result
    /\ UNCHANGED <<decoder_channels, resampler, capacity, queue, queue_created,
                   audio_stream, packets_read, packet_stream, frames_received, resampled,
                   both_channels, seen_remaining, pushed, reported>>
    /\ UNCHANGED callback_vars

\* input(&file)?, best(MediaType::Audio).ok_or(..)?, decoder().audio()?
OpenInput(ok, channels) ==
    /\ pc = "open_input"
    /\ IF ok
       THEN pc' = "resampler" /\ decoder_channels' = channels /\ UNCHANGED result
       ELSE Return("Err(open)") /\ UNCHANGED decoder_channels
    /\ UNCHANGED <<stream_config, resampler, capacity, queue, queue_created,
                   audio_stream, packets_read, packet_stream, frames_received, resampled,
                   both_channels, seen_remaining, pushed, reported>>
    /\ UNCHANGED callback_vars

\* ResamplingContext::get(.., stream_config.sample_format().as_ffmpeg_sample(),
\*                        audio_decoder.channel_layout(), ..)?
CreateResampler(ok) ==
    /\ pc = "resampler"
    /\ LET target == as_ffmpeg_sample(stream_config.format) IN
       IF target[1] = "panic"
       THEN Panic /\ UNCHANGED resampler
       ELSE IF ok
            THEN /\ pc' = "ring_buffer"
                 /\ resampler' = [format |-> target, channels |-> decoder_channels]
                 /\ UNCHANGED result
            ELSE Return("Err(resampler)") /\ UNCHANGED resampler
    /\ UNCHANGED <<stream_config, decoder_channels, capacity, queue, queue_created,
                   audio_stream, packets_read, packet_stream, frames_received, resampled,
                   both_channels, seen_remaining, pushed, reported>>
    /\ UNCHANGED callback_vars

\* RingBuffer::<f32>::new(cap) and buffer.split()
CreateRingBuffer(cap) ==
    /\ pc = "ring_buffer"
    /\ pc' = "build_stream"
    /\ capacity' = cap
    /\ queue' = <<>>
    /\ queue_created' = TRUE
    /\ UNCHANGED <<result, stream_config, decoder_channels, resampler,
                   audio_stream, packets_read, packet_stream, frames_received, resampled,
                   both_channels, seen_remaining, pushed, reported>>
    /\ UNCHANGED callback_vars

\* match stream_config.sample_format() { F32 => build_output_stream(..), .. }.unwrap()
BuildOutputStream(ok) ==
    /\ pc = "build_stream"
    /\ IF stream_config.format = "F32" /\ ok
       THEN pc' = "play" /\ audio_stream' = "built" /\ UNCHANGED result
       ELSE Panic /\ UNCHANGED audio_stream
    /\ UNCHANGED <<stream_config, decoder_channels, resampler, capacity, queue,
                   queue_created, packets_read, packet_stream, frames_received, resampled,
                   both_channels, seen_remaining, pushed, reported>>
    /\ UNCHANGED callback_vars

\* audio_stream.play().unwrap()
Play(ok) ==
    /\ pc = "play"
    /\ IF ok
       THEN pc' = "next_packet" /\ audio_stream' = "playing" /\ UNCHANGED result
       ELSE Panic /\ UNCHANGED audio_stream
    /\ UNCHANGED <<stream_config, decoder_channels, resampler, capacity, queue,
                   queue_created, packets_read, packet_stream, frames_received, resampled,
                   both_channels, seen_remaining, pushed, reported>>
    /\ UNCHANGED callback_vars

\* faulty variant: a packet loop without the stream index test
NextPacket_send_all(kind) ==
    /\ pc = "next_packet"
    /\ IF kind = "eof"
       THEN Return("Ok") /\ UNCHANGED packets_read
       ELSE /\ pc' = "send_packet"
            /\ packets_read' = packets_read + 1
            /\ UNCHANGED result
    /\ packet_stream' = (IF kind = "eof" THEN packet_stream ELSE kind)
    /\ reported' = "none"
    /\ UNCHANGED <<stream_config, decoder_channels, resampler, capacity, queue,
                   queue_created, audio_stream, frames_received, resampled,
                   both_channels, seen_remaining, pushed>>
    /\ UNCHANGED callback_vars

\* for (stream, packet) in ictx.packets() { if stream.index() == audio_stream_index {
\* kind: "audio" (a packet of the audio stream), "other", or "eof" (no more packets)
NextPacket(kind) ==
    /\ pc = "next_packet"
    /\ IF kind = "eof"
       THEN Return("Ok") /\ UNCHANGED packets_read
       ELSE /\ pc' = (IF kind = "audio" THEN "send_packet" ELSE "next_packet")
            /\ packets_read' = packets_read + 1
            /\ UNCHANGED result
    /\ packet_stream' = (IF kind = "eof" THEN packet_stream ELSE kind)
    /\ reported' = "none"
    /\ UNCHANGED <<stream_config, decoder_channels, resampler, capacity, queue,
                   queue_created, audio_stream, frames_received, resampled,
                   both_channels, seen_remaining, pushed>>
    /\ UNCHANGED callback_vars

\* audio_decoder.send_packet(&packet)?
SendPacket(ok) ==
    /\ pc = "send_packet"
    /\ IF ok
       THEN pc' = "receive_frame" /\ UNCHANGED <<result, reported>>
       ELSE Return("Err(send_packet)") /\ reported' = "send_packet"
    /\ UNCHANGED <<stream_config, decoder_channels, resampler, capacity, queue,
                   queue_created, audio_stream, packets_read, packet_stream, frames_received,
                   resampled, both_channels, seen_remaining, pushed>>
    /\ UNCHANGED callback_vars

\* faulty variant: any Err of receive_frame, "no frame for now" included, is returned
ReceiveFrame_again_is_error(outcome) ==
    /\ pc = "receive_frame"
    /\ IF outcome = "frame"
       THEN /\ pc' = "resample"
            /\ frames_received' = frames_received + 1
            /\ UNCHANGED <<result, reported>>
       ELSE /\ Return("Err(receive_frame)")
            /\ reported' = (IF outcome = "error" THEN "receive_frame" ELSE reported)
            /\ UNCHANGED frames_received
    /\ UNCHANGED <<stream_config, decoder_channels, resampler, capacity, queue,
                   queue_created, audio_stream, packets_read, packet_stream, resampled,
                   both_channels, seen_remaining, pushed>>
    /\ UNCHANGED callback_vars

\* while decoder.receive_frame(&mut decoded).is_ok() { .. }  Ok(())
\* outcome: "frame" (Ok), "again" (no frame for now: EAGAIN or EOF), or "error"
\* (the decoder reports a decoding error).  Any Err ends the loop; the closure
\* returns Ok(()) and main goes on with the next packet.
ReceiveFrame(outcome) ==
    /\ pc = "receive_frame"
    /\ IF outcome = "frame"
       THEN /\ pc' = "resample"
            /\ frames_received' = frames_received + 1
            /\ UNCHANGED reported
       ELSE /\ pc' = "next_packet"
            /\ reported' = (IF outcome = "error" THEN "receive_frame" ELSE reported)
            /\ UNCHANGED frames_received
    /\ UNCHANGED <<result, stream_config, decoder_channels, resampler, capacity, queue,
                   queue_created, audio_stream, packets_read, packet_stream, resampled,
                   both_channels, seen_remaining, pushed>>
    /\ UNCHANGED callback_vars

\* the frame resampler.run produces: the resampler's target format and channels,
\* `samples` populated samples per channel in a buffer allocated for `alloc`
ResampledFrame(samples, alloc) ==
    [format |-> resampler.format, samples |-> samples,
     channels |-> resampler.channels, alloc |-> alloc]

\* resampler.run(&decoded, &mut resampled)?;  let both_channels = packed(&resampled);
Resample(ok, samples, alloc) ==
    /\ pc = "resample"
    /\ IF ~ok
       THEN /\ Return("Err(resampler.run)")
            /\ reported' = "resampler"
            /\ UNCHANGED <<resampled, both_channels>>
       ELSE /\ resampled' = ResampledFrame(samples, alloc)
            /\ UNCHANGED reported
            /\ IF packed(resampled') < 0
               THEN Panic /\ UNCHANGED both_channels
               ELSE /\ pc' = "wait"
                    /\ both_channels' = packed(resampled')
                    /\ UNCHANGED result
    /\ UNCHANGED <<stream_config, decoder_channels, resampler, capacity, queue,
                   queue_created, audio_stream, packets_read, packet_stream, frames_received,
                   seen_remaining, pushed>>
    /\ UNCHANGED callback_vars

\* faulty variant: a wait that gives up: main returns when the frame does not fit
CheckCapacity_give_up(record) ==
    /\ pc = "wait"
    /\ LET remaining == Producer_remaining(capacity, queue) IN
       /\ seen_remaining' = (IF record THEN remaining ELSE 0)
       /\ IF remaining < both_channels
          THEN Return("Err(full)")
          ELSE pc' = "push" /\ UNCHANGED result
    /\ UNCHANGED <<stream_config, decoder_channels, resampler, capacity, queue,
                   queue_created, audio_stream, packets_read, packet_stream, frames_received,
                   resampled, both_channels, pushed, reported>>
    /\ UNCHANGED callback_vars

\* faulty variant: no backpressure wait: the frame is pushed whatever remaining() says
CheckCapacity_no_wait(record) ==
    /\ pc = "wait"
    /\ LET remaining == Producer_remaining(capacity, queue) IN
       /\ seen_remaining' = (IF record THEN remaining ELSE 0)
       /\ pc' = "push"
    /\ UNCHANGED <<result, stream_config, decoder_channels, resampler, capacity, queue,
                   queue_created, audio_stream, packets_read, packet_stream, frames_received,
                   resampled, both_channels, pushed, reported>>
    /\ UNCHANGED callback_vars

\* faulty variant: the wait ends as soon as any slot is free
CheckCapacity_any_space(record) ==
    /\ pc = "wait"
    /\ LET remaining == Producer_remaining(capacity, queue) IN
       /\ seen_remaining' = (IF record THEN remaining ELSE 0)
       /\ pc' = (IF remaining = 0 /\ both_channels > 0 THEN "sleep" ELSE "push")
    /\ UNCHANGED <<result, stream_config, decoder_channels, resampler, capacity, queue,
                   queue_created, audio_stream, packets_read, packet_stream, frames_received,
                   resampled, both_channels, pushed, reported>>
    /\ UNCHANGED callback_vars

\* while producer.remaining() < both_channels.len() {
\* record: whether the value read is kept in the history variable seen_remaining
CheckCapacity(record) ==
    /\ pc = "wait"
    /\ LET remaining == Producer_remaining(capacity, queue) IN
       /\ seen_remaining' = (IF record THEN remaining ELSE 0)
       /\ pc' = (IF remaining < both_channels THEN "sleep" ELSE "push")
    /\ UNCHANGED <<result, stream_config, decoder_channels, resampler, capacity, queue,
                   queue_created, audio_stream, packets_read, packet_stream, frames_received,
                   resampled, both_channels, pushed, reported>>
    /\ UNCHANGED callback_vars

\* std::thread::sleep(std::time::Duration::from_millis(10)); }
Sleep ==
    /\ pc = "sleep"
    /\ pc' = "wait"
    /\ UNCHANGED <<result, stream_config, decoder_channels, resampler, capacity, queue,
                   queue_created, audio_stream, packets_read, packet_stream, frames_received,
                   resampled, both_channels, seen_remaining, pushed, reported>>
    /\ UNCHANGED callback_vars

\* producer.push_slice(both_channels);  (the returned count is not looked at)
PushSlice ==
    /\ pc = "push"
    /\ queue' = Producer_push_slice(capacity, queue, pushed + 1, both_channels)
    /\ pushed' = pushed + both_channels
    /\ pc' = "receive_frame"
    /\ resampled' = NoFrame            \* the iteration ends: resampled is dropped
    /\ both_channels' = 0
    /\ seen_remaining' = 0
    /\ UNCHANGED <<result, stream_config, decoder_channels, resampler, capacity,
                   queue_created, audio_stream, packets_read, packet_stream, frames_received,
                   reported>>
    /\ UNCHANGED callback_vars

----------------------------------------------------------------------------
(* The callback thread: the device calls the closure of build_output_stream, *)
(* which calls write_audio(data, &mut consumer, ..).                         *)

\* the device invokes the callback with an output buffer of len slots; it does so
\* while the stream exists and main has not ended (the stream is dropped with main)
CallbackInvoke(len) ==
    /\ cb = "idle"
    /\ audio_stream \in {"built", "playing"}
    /\ Running
    /\ cb' = "running"
    /\ buffer_len' = len
    /\ data' = [i \in 1..len |-> Unwritten]
    /\ slot' = 0
    /\ UNCHANGED played
    /\ UNCHANGED main_vars
    /\ UNCHANGED queue

\* faulty variant: write_audio that leaves the slot as it was on an underrun
SlotValue_stale(popped) == IF popped.some THEN popped.sample ELSE Unwritten

\* what write_audio stores into a slot: the popped sample, or silence
SlotValue(popped) == IF popped.some THEN popped.sample ELSE Silence

\* one iteration of `for d in data`: match samples.pop() { Some(sample) => *d = sample,
\*                                                          None => *d = Sample::from(&0.0) }
WriteSlot ==
    /\ cb = "running"
    /\ slot < buffer_len
    /\ LET popped == Consumer_pop(queue) IN
       /\ queue' = popped.rest
       /\ data' = [data EXCEPT ![slot + 1] = SlotValue(popped)]
       /\ slot' = slot + 1
       /\ played' = IF popped.some THEN AppendRun(played, popped.sample, 1) ELSE played
    /\ UNCHANGED <<cb, buffer_len>>
    /\ UNCHANGED main_vars

\* the loop is over: write_audio and the callback return
CallbackReturn ==
    /\ cb = "running"
    /\ slot = buffer_len
    /\ cb' = "idle"
    /\ buffer_len' = 0
    /\ data' = <<>>
    /\ slot' = 0
    /\ UNCHANGED played
    /\ UNCHANGED main_vars
    /\ UNCHANGED queue

----------------------------------------------------------------------------
(* The program on any input: every outcome of every external call.          *)

Configs == [format : SampleFormat, channels : ChannelCounts]

MainStep ==
    \/ \E cfg \in Configs \cup {NoConfig} : InitCpal(cfg)
    \/ \E ok \in BOOLEAN, ch \in ChannelCounts : OpenInput(ok, ch)
    \/ \E ok \in BOOLEAN : CreateResampler(ok)
    \/ CreateRingBuffer(QueueCapacity)
    \/ \E ok \in BOOLEAN : BuildOutputStream(ok)
    \/ \E ok \in BOOLEAN : Play(ok)
    \/ \E kind \in {"audio", "other", "eof"} :
          /\ kind # "eof" => packets_read < MaxPackets
          /\ NextPacket(kind)
    \/ \E ok \in BOOLEAN : SendPacket(ok)
    \/ \E outcome \in {"frame", "again", "error"} :
          /\ outcome = "frame" => frames_received < MaxFrames
          /\ ReceiveFrame(outcome)
    \/ \E ok \in BOOLEAN, samples \in 0..MaxSamples, extra \in 0..1 :
          Resample(ok, samples, samples + extra)
    \/ CheckCapacity(TRUE)
    \/ Sleep
    \/ PushSlice

CallbackStep ==
    \/ \E frames \in BufferFrames : CallbackInvoke(frames * stream_config.channels)
    \/ WriteSlot
    \/ CallbackReturn

Next == MainStep \/ CallbackStep

Spec == Init /\ [][Next]_vars

----------------------------------------------------------------------------
(* The program on one input, with the ring main.rs creates: an f32 mono     *)
(* device, a mono file of three audio packets that yield one frame each, of *)
(* 3000, 2000 and 4000 samples; every external call succeeds.               *)

E2EFrames == <<3000, 2000, 4000>>

\* slots of the device's output buffer in this run
E2EBuffer == <<1>>

E2EMainStep ==
    \/ InitCpal([format |-> "F32", channels |-> 1])
    \/ OpenInput(TRUE, 1)
    \/ CreateResampler(TRUE)
    \/ CreateRingBuffer(RingBufferCapacity)
    \/ BuildOutputStream(TRUE)
    \/ Play(TRUE)
    \/ NextPacket(IF packets_read < Len(E2EFrames) THEN "audio" ELSE "eof")
    \/ SendPacket(TRUE)
    \/ ReceiveFrame(IF frames_received < packets_read THEN "frame" ELSE "again")
    \/ /\ packets_read \in DOMAIN E2EFrames
       /\ Resample(TRUE, E2EFrames[packets_read], E2EFrames[packets_read])
    \/ CheckCapacity(FALSE)
    \/ Sleep
    \/ PushSlice

E2ECallbackStep ==
    \/ CallbackInvoke(E2EBuffer[1])
    \/ WriteSlot
    \/ CallbackReturn

NextE2E == E2EMainStep \/ E2ECallbackStep

SpecE2E == Init /\ [][NextE2E]_vars

(* packed::<f32> on every frame: main has sent its first audio packet to    *)
(* the decoder, on an f32 device; the frames the resampler hands to packed   *)
(* have any sample format, packed or planar, and any channel count.          *)

FrameFormats == SampleFormat \X {"Packed", "Planar"}

InitPacked ==
    /\ pc = "receive_frame"
    /\ result = "none"
    /\ stream_config \in [format : {"F32"}, channels : ChannelCounts]
    /\ decoder_channels \in ChannelCounts
    /\ resampler \in [format : FrameFormats, channels : {decoder_channels}]
    /\ capacity = QueueCapacity
    /\ queue = <<>>
    /\ queue_created = TRUE
    /\ audio_stream = "playing"
    /\ packets_read = 1
    /\ packet_stream = "audio"
    /\ frames_received = 0
    /\ resampled = NoFrame
    /\ both_channels = 0
    /\ seen_remaining = 0
    /\ pushed = 0
    /\ reported = "none"
    /\ cb = "idle"
    /\ buffer_len = 0
    /\ data = <<>>
    /\ slot = 0
    /\ played = <<>>

NextPacked ==
    \/ \E outcome \in {"frame", "again", "error"} :
          /\ outcome = "frame" => frames_received < MaxFrames
          /\ ReceiveFrame(outcome)
    \/ \E ok \in BOOLEAN, samples \in 0..MaxSamples, extra \in 0..1 :
          Resample(ok, samples, samples + extra)
    \/ CheckCapacity(TRUE)
    \/ Sleep
    \/ PushSlice
    \/ CallbackStep

SpecPacked == InitPacked /\ [][NextPacked]_vars

(* The program with both threads scheduled: the main thread keeps running   *)
(* while it has a step to take, and the device keeps invoking the callback. *)
FairSpec == Init /\ [][Next]_vars /\ WF_vars(MainStep) /\ WF_vars(CallbackStep)

----------------------------------------------------------------------------
(* Properties.                                                              *)

\* slots of the ring that hold no unread sample
FreeSlots == capacity - RunsLen(queue)

\* the step that executes producer.push_slice
PushStep == pc = "push" /\ pc' # "push"

\* a step that executes one iteration of write_audio's loop
SlotStep == cb = "running" /\ slot' = slot + 1

\* C1 (no overwrite): every sample the pipeline has pushed is, in every reachable
\* state, either still in the ring or has been popped, and exactly once in all:
\* no pushed sample is lost, overwritten or delivered twice.
C1_NoOverwrite ==
    \A s \in 1..pushed : Occurrences(queue, s) + Occurrences(played, s) = 1

\* C1 witness: more samples than the ring holds have been pushed (slots were
\* reused) while unread samples are queued and others have been popped.
C1_Witness == queue_created /\ pushed > capacity /\ queue # <<>> /\ played # <<>>

\* C2 (FIFO order): the samples written to the output, silence left out, are
\* always the first samples pushed, in push order: 1, 2, .., m with m <= pushed.
C2_FifoOrder ==
    \/ played = <<>>
    \/ Len(played) = 1 /\ played[1][1] = 1 /\ played[1][2] <= pushed

\* C2 witness: all pushed samples, more than one ring's worth (so more than one
\* frame), have been played.
C2_Witness ==
    queue_created /\ pushed > capacity /\ played = << <<1, pushed>> >>

\* C3 (whole-frame push): push_slice is only ever executed with at least the
\* frame's length free, and it appends all samples of the frame, in order.
C3_WholeFramePush ==
    [][PushStep => /\ FreeSlots >= both_channels
                   /\ queue' = AppendRun(queue, pushed + 1, both_channels)
                   /\ RunsLen(queue') = RunsLen(queue) + both_channels]_vars

\* C3 witness: the producer is about to push a frame, and the callback has popped
\* samples since the capacity check.
C3_Witness ==
    pc = "push" /\ both_channels > 0 /\ seen_remaining < FreeSlots

\* C4 (underrun silence, no blocking): every iteration of the callback's loop
\* writes the next slot, not written before, with the oldest queued sample, or
\* with silence when the ring is empty; the callback returns only with all slots
\* written; a running callback can always take its next step, whatever the main
\* thread is doing, and it returns.
C4_UnderrunSilence ==
    /\ [](cb = "running" => ENABLED (WriteSlot \/ CallbackReturn))
    /\ (cb = "running") ~> (cb = "idle")
    /\ [][/\ SlotStep =>
              /\ data[slot + 1] = Unwritten
              /\ data'[slot + 1] = (IF queue = <<>> THEN Silence ELSE queue[1][1])
              /\ \A i \in DOMAIN data : i # slot + 1 => data'[i] = data[i]
          /\ (cb = "running" /\ cb' = "idle") =>
              \A i \in DOMAIN data : data[i] # Unwritten]_vars

\* C4 witness: a running callback has written a sample and then silence into one
\* buffer while the producer sleeps in its backpressure wait.
C4_Witness ==
    /\ cb = "running" /\ slot >= 2 /\ data[1] > Silence /\ data[2] = Silence
    /\ pc = "sleep"

\* C7 (capacity conservation): the push of a frame of n samples lowers the
\* remaining capacity by exactly n; an iteration of the callback raises it by one
\* (by nothing when the ring is empty); nothing but a push lowers it.
C7_CapacityConservation ==
    [][/\ PushStep => FreeSlots' = FreeSlots - both_channels
       /\ SlotStep => FreeSlots' = (IF queue = <<>> THEN FreeSlots ELSE FreeSlots + 1)
       /\ FreeSlots' < FreeSlots => PushStep]_vars

\* C7 witness: a push has filled the ring to its capacity after samples were popped.
C7_Witness ==
    queue_created /\ FreeSlots = 0 /\ played # <<>> /\ pc = "receive_frame"

\* C8 (safe underestimate): from the capacity check to the push (or to the next
\* check), the value remaining() returned is never more than the free slots.
C8_SafeUnderestimate ==
    pc \in {"push", "sleep"} => seen_remaining <= FreeSlots

\* C8 witness: the producer sleeps on a value that has become an underestimate:
\* the frame fits by now.
C8_Witness ==
    pc = "sleep" /\ seen_remaining < both_channels /\ both_channels <= FreeSlots

\* samples the callback has popped so far
Popped == RunsLen(played)

\* what C5 states of every state, with the third frame pushed only once `drained`
\* samples are popped
EndToEndState(drained) ==
    /\ capacity \in {0, 8192}
    /\ pushed \in {0, 3000, 5000, 9000}
    /\ pc = "sleep" => pushed = 5000 /\ both_channels = 4000
    /\ (pc = "push" /\ pushed = 5000) => Popped >= drained
    /\ pushed = 9000 => Popped >= drained
    /\ played = (IF Popped = 0 THEN <<>> ELSE << <<1, Popped>> >>)
    /\ queue = (IF Popped = pushed THEN <<>> ELSE << <<Popped + 1, pushed - Popped>> >>)

\* and of every step: the producer goes to sleep exactly when it checks the
\* capacity for the third frame with fewer than `drained` samples popped
EndToEndStep(drained) ==
    (pc = "wait" /\ pc' # "wait") =>
        (pc' = "sleep" <=> (pushed = 5000 /\ Popped < drained))

\* C5 as stated (end-to-end scenario, ring of 8192): the frames of 3000 and of 2000
\* samples are pushed without the producer ever sleeping; the frame of 4000 samples
\* waits until at least 1192 samples have been popped and is pushed only then; each
\* frame is pushed once and what is popped is the pushed samples in push order.
C5_EndToEnd_1192 == [](EndToEndState(1192)) /\ [][EndToEndStep(1192)]_vars

\* C5 amended: as above, with the third frame waiting until at least 808 samples
\* (3000 + 2000 + 4000 - 8192) have been popped: a capacity check sends the
\* producer to sleep exactly when fewer than 808 have been, and the push happens
\* only once at least 808 have been.
C5_EndToEnd == [](EndToEndState(808)) /\ [][EndToEndStep(808)]_vars

\* C5 witness: the third frame is about to be pushed, right when 808 samples have
\* been popped and exactly 4000 slots are free.
C5_Witness ==
    /\ pc = "push" /\ pushed = 5000 /\ both_channels = 4000
    /\ Popped = 808 /\ FreeSlots = 4000 /\ capacity = 8192

\* the producer is in its backpressure wait for the frame it holds
Waiting == pc \in {"wait", "sleep"}

\* C6 as stated (backpressure liveness): with the callback invoked again and again,
\* the producer's wait for a frame always ends with the frame being pushed.
C6_BackpressureLiveness == Waiting ~> (pc = "push")

\* C6 for the frames that fit into the ring at all: these are always pushed.
C6_FittingFramesArePushed ==
    (Waiting /\ both_channels <= capacity) ~> (pc = "push")

\* C6: where the wait never ends: a frame longer than the ring's capacity, for
\* which the producer sleeps with the ring already empty.
C6_Stuck == pc = "sleep" /\ both_channels > capacity /\ queue = <<>>

\* C9 as stated (pipeline errors abort the session): once the decoder, on
\* send_packet or on receive_frame, or the resampler has reported an error, main
\* has returned that error; it does not go on with the next packet.
C9_PipelineErrorsAbort ==
    reported # "none" => pc = "returned" /\ result \notin {"none", "Ok"}

\* C9 restricted to the errors main does propagate: those of send_packet and
\* of resampler.run.
C9_SendAndResampleErrorsAbort ==
    reported \in {"send_packet", "resampler"} =>
        pc = "returned" /\ result \in {"Err(send_packet)", "Err(resampler.run)"}

\* C9: the decoder has reported a decoding error on receive_frame, and main is
\* back in its packet loop with samples already pushed.
C9_ErrorSwallowed == reported = "receive_frame" /\ pc = "next_packet" /\ pushed > 0

\* C10 (format rejection at startup): with a u16 device, main never gets past
\* the construction of the resampler: it panics there (or has returned the
\* error of opening the input before), with no resampler, no ring, no output
\* stream, no packet read and no sample pushed; and a resampler that exists has
\* the device's format, i16 or f32, as a packed descriptor for its target.
C10_FormatRejection ==
    /\ stream_config.format = "U16" =>
          /\ pc \in {"open_input", "resampler", "returned", "panicked"}
          /\ pc = "returned" => result = "Err(open)"
          /\ resampler = NoResampler /\ ~queue_created /\ capacity = 0
          /\ audio_stream = "none" /\ packets_read = 0 /\ pushed = 0
          /\ queue = <<>> /\ cb = "idle"
    /\ resampler # NoResampler =>
          /\ stream_config.format \in {"I16", "F32"}
          /\ resampler.format = <<stream_config.format, "Packed">>

\* C10 witness: main has panicked on a u16 device, in the format adapter.
C10_Witness == stream_config.format = "U16" /\ pc = "panicked"

\* C11 (valid extent and checked view): when resampler.run has succeeded, packed
\* hands out a view exactly for a frame that is packed and of the f32 element kind,
\* and main panics otherwise with nothing pushed for the frame; the view's length
\* is samples x channels whatever the frame's allocated buffer is, and the push
\* that follows appends exactly that many samples.
C11_CheckedView ==
    [][/\ (pc = "resample" /\ pc' \in {"wait", "panicked"}) =>
             IF resampled'.format = <<"F32", "Packed">>
             THEN /\ pc' = "wait"
                  /\ both_channels' = resampled'.samples * resampled'.channels
             ELSE /\ pc' = "panicked"
                  /\ both_channels' = 0 /\ pushed' = pushed /\ queue' = queue
       /\ PushStep =>
             /\ resampled.format = <<"F32", "Packed">>
             /\ pushed' - pushed = resampled.samples * resampled.channels
             /\ RunsLen(queue') = RunsLen(queue) + resampled.samples * resampled.channels]_vars

\* C11 witness: a frame whose allocated buffer is larger than its populated
\* samples is about to be pushed, with a view of samples x channels.
C11_Witness ==
    /\ pc = "push" /\ resampled.alloc > resampled.samples
    /\ both_channels = resampled.samples * resampled.channels /\ both_channels > 0

\* the step with which main ends (returns or panics)
Terminates == Running /\ ~Running'

\* C12 (session termination): once play() has succeeded, main ends only by
\* returning Ok from the packet loop when there is no packet left, or by returning
\* the error of send_packet or of resampler.run; it never panics and never ends
\* anywhere else; a step of the callback never ends main, and the step that ends
\* main does not touch the ring or the callback.
C12_SessionTermination ==
    /\ [](audio_stream = "playing" =>
            /\ pc # "panicked"
            /\ result \in {"none", "Ok", "Err(send_packet)", "Err(resampler.run)"}
            /\ pc = "returned" <=> result # "none")
    /\ [][/\ (audio_stream = "playing" /\ Terminates) =>
               /\ \/ pc = "next_packet" /\ result' = "Ok"
                  \/ pc = "send_packet" /\ result' = "Err(send_packet)"
                  \/ pc = "resample" /\ result' = "Err(resampler.run)"
               /\ queue' = queue /\ callback_vars' = callback_vars
          /\ (callback_vars' # callback_vars \/ RunsLen(queue') < RunsLen(queue)) =>
               pc' = pc /\ result' = result]_vars

\* C12 witness: main has returned Ok at the end of the packets, after frames
\* were pushed, while a callback that ran into an empty ring is still running.
C12_Witness ==
    /\ pc = "returned" /\ result = "Ok" /\ audio_stream = "playing" /\ pushed > 0
    /\ cb = "running" /\ slot > 0 /\ data[slot] = Silence

\* C13 as stated (resample target matches the device): a resampler that exists
\* has the device's sample format and the device's channel count for its target,
\* and so has every frame about to be pushed.
C13_TargetMatchesDevice ==
    /\ resampler # NoResampler =>
          /\ resampler.format[1] = stream_config.format
          /\ resampler.channels = stream_config.channels
    /\ pc = "push" =>
          /\ resampled.format[1] = stream_config.format
          /\ resampled.channels = stream_config.channels

\* C13 for the sample format alone, which is the device's.
C13_TargetFormatMatchesDevice ==
    /\ resampler # NoResampler => resampler.format[1] = stream_config.format
    /\ pc = "push" => resampled.format[1] = stream_config.format

\* C13: a frame with the decoder's channel count, which is not the device's, is
\* about to be pushed into the ring the device's callback reads.
C13_LayoutMismatch ==
    /\ pc = "push" /\ both_channels > 0
    /\ resampled.channels = decoder_channels
    /\ resampled.channels # stream_config.channels

\* main holds a resampled frame that it has not pushed yet
HoldsFrame == pc \in {"wait", "sleep", "push"}

\* C14 (per-packet state machine): an audio packet is sent to the decoder, then
\* frames are received one after the other; each received frame is resampled,
\* viewed, waited for and pushed, in this order, before the next receive_frame;
\* main leaves the loop for the next packet only from receive_frame, when it
\* yields no frame, and this step returns no error and pushes nothing.
C14_PerPacketStateMachine ==
    /\ [](/\ HoldsFrame => resampled # NoFrame /\ both_channels = packed(resampled)
          /\ pc \in {"next_packet", "send_packet", "receive_frame"} =>
                resampled = NoFrame /\ both_channels = 0)
    /\ [][/\ (pc = "next_packet" /\ pc' # pc) => pc' \in {"send_packet", "returned"}
          /\ (pc = "send_packet" /\ pc' # pc) => pc' \in {"receive_frame", "returned"}
          /\ (pc = "receive_frame" /\ pc' # pc) =>
                \/ pc' = "resample" /\ frames_received' = frames_received + 1
                \/ /\ pc' = "next_packet" /\ result' = result
                   /\ frames_received' = frames_received
                /\ pushed' = pushed /\ queue' = queue
          /\ (pc = "resample" /\ pc' # pc) =>
                /\ pc' \in {"wait", "returned"}
                /\ pushed' = pushed /\ queue' = queue
          /\ (pc = "wait" /\ pc' # pc) => pc' \in {"sleep", "push"} /\ pushed' = pushed
          /\ (pc = "sleep" /\ pc' # pc) => pc' = "wait" /\ pushed' = pushed
          /\ (pc = "push" /\ pc' # pc) =>
                /\ pc' = "receive_frame"
                /\ pushed' = pushed + both_channels
                /\ frames_received' = frames_received
          /\ pushed' # pushed => pc = "push"]_vars

\* C14 witness: the first audio packet has yielded two frames, both were pushed,
\* receive_frame had no third frame and main is back at the packet loop without
\* an error.
C14_Witness ==
    /\ pc = "next_packet" /\ packets_read = 1 /\ frames_received = 2
    /\ pushed = 2 * MaxSamples /\ reported = "none" /\ result = "none"

\* C15 (bounded occupancy, ring of 8192): once the ring exists its capacity is
\* 8192 and no step changes it; the queued samples, which are the samples pushed
\* and not yet popped, number between 0 and 8192, and together with what
\* remaining() returns they make 8192.
C15_BoundedOccupancy ==
    /\ [](queue_created =>
            /\ capacity = 8192
            /\ RunsLen(queue) = pushed - Popped
            /\ pushed - Popped >= 0 /\ pushed - Popped <= 8192
            /\ (pushed - Popped) + Producer_remaining(capacity, queue) = 8192)
    /\ [][queue_created => capacity' = capacity]_vars

\* C15 witness: the ring is full, 8192 samples queued, after the third frame
\* was pushed into slots the callback had freed.
C15_Witness ==
    queue_created /\ RunsLen(queue) = 8192 /\ pushed = 9000 /\ Popped = 808

\* the channel of pushed sample s: frames are interleaved by the resampler's
\* channel count and pushed whole, so samples 1, 2, .. go round the channels
ChannelOfSample(s) == (s - 1) % resampler.channels

\* the channel the device plays slot i (1, 2, ..) of an output buffer on
ChannelOfSlot(i) == (i - 1) % stream_config.channels

\* C16 as stated (channel alignment): when the frames have the device's channel
\* count, every sample (not silence) in a slot of the callback's buffer is a
\* sample of that slot's channel, at every point of every interleaving.
C16_ChannelAlignment ==
    (cb = "running" /\ resampler.channels = stream_config.channels) =>
        \A i \in DOMAIN data :
            data[i] > Silence => ChannelOfSample(data[i]) = ChannelOfSlot(i)

\* C16: on a stereo device playing stereo frames, the callback found the ring
\* empty and wrote silence to the left slot, a frame was pushed, and the frame's
\* first (left) sample went to the right slot.
C16_Misaligned ==
    /\ cb = "running" /\ stream_config.channels = 2 /\ resampler.channels = 2
    /\ slot >= 2 /\ data[1] = Silence /\ data[2] = 1

\* C17 as stated (complete delivery at end of input): when main has returned Ok,
\* the ring is empty and every pushed sample has been written to an output buffer.
C17_CompleteDelivery ==
    (pc = "returned" /\ result = "Ok") => queue = <<>> /\ Popped = pushed

\* C17: main has returned Ok with pushed samples still in the ring and no
\* callback running; the stream is dropped with main, so they are never played.
C17_SamplesLeftInQueue ==
    /\ pc = "returned" /\ result = "Ok" /\ cb = "idle"
    /\ queue # <<>> /\ Popped < pushed

\* main is between send_packet and the end of receive_and_queue_audio_frames
InPipeline == pc \in {"send_packet", "receive_frame", "resample", "wait", "sleep", "push"}

\* the step of the packet loop that takes a packet of another stream
OtherPacketStep ==
    pc = "next_packet" /\ packets_read' = packets_read + 1 /\ packet_stream' = "other"

\* C18 (non-audio packets are ignored): send_packet and the frame loop run only
\* on packets of the audio stream; the loop iteration of a packet of another
\* stream goes straight on to the next packet: it sends nothing to the decoder and
\* leaves the decoder, the resampler, the frame at hand, the ring and main's
\* result as they were.
C18_NonAudioIgnored ==
    /\ [](InPipeline => packet_stream = "audio")
    /\ [][OtherPacketStep =>
            /\ pc' = "next_packet" /\ result' = result
            /\ decoder_channels' = decoder_channels
            /\ frames_received' = frames_received
            /\ resampler' = resampler /\ resampled' = resampled
            /\ both_channels' = both_channels
            /\ queue' = queue /\ pushed' = pushed /\ capacity' = capacity]_vars

\* C18 witness: the second packet was of another stream and has been skipped,
\* with the samples of the first packet's frame still in the ring.
C18_Witness ==
    /\ pc = "next_packet" /\ packets_read = 2 /\ packet_stream = "other"
    /\ frames_received = 1 /\ pushed > 0 /\ queue # <<>>

\* the samples of a sequence of runs, one by one
RECURSIVE Flat(_)
Flat(runs) ==
    IF runs = <<>> THEN <<>>
    ELSE [i \in 1..runs[1][2] |-> runs[1][1] + i - 1] \o Flat(Tail(runs))

\* samples (not silence) the running callback has written to its buffer
RealSlots == {i \in DOMAIN data : data[i] > Silence}

\* C19 (thread-side separation): a step of the callback leaves what was pushed
\* and the ring's capacity alone and either leaves the ring as it is or removes
\* its oldest sample, the rest staying in place, and writes that sample to the
\* slot of this iteration, so that one invocation removes at most data.len()
\* samples; a step of main leaves the callback's state and what was played alone,
\* removes nothing from the ring and only appends behind what is queued.
C19_ThreadSeparation ==
    /\ [](cb = "running" =>
            /\ Len(data) = buffer_len /\ slot <= buffer_len
            /\ \A i \in RealSlots : i <= slot
            /\ Cardinality(RealSlots) <= buffer_len)
    /\ [][/\ callback_vars' # callback_vars =>
               /\ pushed' = pushed /\ capacity' = capacity
               /\ \/ Flat(queue') = Flat(queue) /\ played' = played
                  \/ /\ SlotStep /\ queue # <<>>
                     /\ Flat(queue') = Tail(Flat(queue))
                     /\ data'[slot + 1] = Head(Flat(queue))
                     /\ RunsLen(played') = RunsLen(played) + 1
          /\ main_vars' # main_vars =>
               /\ callback_vars' = callback_vars
               /\ Len(Flat(queue')) >= Len(Flat(queue))
               /\ SubSeq(Flat(queue'), 1, Len(Flat(queue))) = Flat(queue)
               /\ Len(Flat(queue')) - Len(Flat(queue)) = pushed' - pushed]_vars

\* C19 witness: one invocation with a buffer of two slots has removed two
\* samples, one per slot, and the ring still holds samples main pushed.
C19_Witness ==
    /\ cb = "running" /\ buffer_len = 2 /\ slot = 2
    /\ data[1] > Silence /\ data[2] > Silence /\ queue # <<>>

====
